---- MODULE Spec2Model ----
\* Model of mpd-stream-proxy (src/src/main.rs): the request handler, the
\* yt-dlp metadata cache, the path parser and the URL selection.
\*
\* Strings are sequences of one-character strings, so that splitting,
\* prefix and suffix tests are computed character by character.
\* A serde_json::Value is a one-field record whose field name is its type:
\*   [str |-> s]  [int |-> n]  [flt |-> n]  [arr |-> <<v, ...>>]  [obj |-> f]
\* where f is a function from field names to Values.
EXTENDS Integers, Sequences, FiniteSets, TLC

VARIABLES now, ticks, cache, birth, req, arrivals, probe

vars == <<now, ticks, cache, birth, req, arrivals, probe>>

\* ------------------------------------------------------------------ bounds

MaxRequests == 2
MaxTicks == 1
MaxSeqRequests == 3
MaxSeqTicks == 2
MaxTokens == 6
MaxThumbs == 3
MaxHeaders == 2
MaxLines == 3

\* ------------------------------------------------------------------ strings

SLASH == "/"
DOT == "."
COVER_DOT == <<"c", "o", "v", "e", "r", ".">>

RECURSIVE Flatten(_)
Flatten(ss) == IF ss = <<>> THEN <<>> ELSE Head(ss) \o Flatten(Tail(ss))

starts_with(s, prefix) ==
    /\ Len(prefix) <= Len(s)
    /\ SubSeq(s, 1, Len(prefix)) = prefix

ends_with(s, suffix) ==
    /\ Len(suffix) <= Len(s)
    /\ SubSeq(s, Len(s) - Len(suffix) + 1, Len(s)) = suffix

\* Mutant of rsplit_once: splits at the first occurrence.
rsplit_once_first(s, ch) ==
    LET hits == {i \in 1..Len(s) : s[i] = ch}
    IN  IF hits = {} THEN [found |-> FALSE]
        ELSE LET i == CHOOSE j \in hits : \A k \in hits : j <= k
             IN  [found |-> TRUE,
                  left |-> SubSeq(s, 1, i - 1),
                  right |-> SubSeq(s, i + 1, Len(s))]

\* str::rsplit_once(ch): None when ch does not occur, else the parts around
\* its last occurrence.
rsplit_once(s, ch) ==
    LET hits == {i \in 1..Len(s) : s[i] = ch}
    IN  IF hits = {} THEN [found |-> FALSE]
        ELSE LET i == CHOOSE j \in hits : \A k \in hits : k <= j
             IN  [found |-> TRUE,
                  left |-> SubSeq(s, 1, i - 1),
                  right |-> SubSeq(s, i + 1, Len(s))]

\* Mutant of split_once: splits at the last occurrence.
split_once_last(s, ch) == rsplit_once(s, ch)

\* str::split_once(ch): the parts around the first occurrence.
split_once(s, ch) ==
    LET hits == {i \in 1..Len(s) : s[i] = ch}
    IN  IF hits = {} THEN [found |-> FALSE]
        ELSE LET i == CHOOSE j \in hits : \A k \in hits : j <= k
             IN  [found |-> TRUE,
                  left |-> SubSeq(s, 1, i - 1),
                  right |-> SubSeq(s, i + 1, Len(s))]

RECURSIVE trim_start_matches(_, _)
trim_start_matches(s, ch) ==
    IF s # <<>> /\ Head(s) = ch THEN trim_start_matches(Tail(s), ch) ELSE s

\* ------------------------------------------------------------------ parser

\* Result<(String, String, bool)> of extract_input. The three Err values are
\* the three anyhow! messages of the function.
ParseErr(e) == [ok |-> FALSE, err |-> e]

\* Mutant of extract_input: the check for an empty URL is missing.
extract_input_unchecked(path_and_query) ==
    LET sp == rsplit_once(path_and_query, SLASH)
        input0 == IF sp.found THEN sp.left ELSE <<>>
        last == IF sp.found THEN sp.right ELSE <<>>
        is_asking_cover == starts_with(last, COVER_DOT)
        input == trim_start_matches(input0, SLASH)
        cover_ext == IF is_asking_cover THEN split_once(last, DOT).right ELSE <<>>
    IN  IF last # <<>> /\ ~is_asking_cover THEN ParseErr("no_slash_or_cover")
        ELSE IF is_asking_cover /\ cover_ext = <<>> THEN ParseErr("cover_no_extension")
        ELSE [ok |-> TRUE, input |-> input, cover_ext |-> cover_ext,
              is_asking_cover |-> is_asking_cover]

\* Mutant of extract_input: a path without '/' is taken whole as the input.
extract_input_whole(path_and_query) ==
    LET sp == rsplit_once(path_and_query, SLASH)
        input0 == IF sp.found THEN sp.left ELSE path_and_query
        last == IF sp.found THEN sp.right ELSE <<>>
        is_asking_cover == starts_with(last, COVER_DOT)
        input == trim_start_matches(input0, SLASH)
        cover_ext == IF is_asking_cover THEN split_once(last, DOT).right ELSE <<>>
    IN  IF last # <<>> /\ ~is_asking_cover THEN ParseErr("no_slash_or_cover")
        ELSE IF input = <<>> THEN ParseErr("empty_url")
        ELSE IF is_asking_cover /\ cover_ext = <<>> THEN ParseErr("cover_no_extension")
        ELSE [ok |-> TRUE, input |-> input, cover_ext |-> cover_ext,
              is_asking_cover |-> is_asking_cover]

extract_input(path_and_query) ==
    LET sp == rsplit_once(path_and_query, SLASH)
        input0 == IF sp.found THEN sp.left ELSE <<>>
        last == IF sp.found THEN sp.right ELSE <<>>
        is_asking_cover == starts_with(last, COVER_DOT)
        input == trim_start_matches(input0, SLASH)
        cover_ext == IF is_asking_cover THEN split_once(last, DOT).right ELSE <<>>
    IN  IF last # <<>> /\ ~is_asking_cover THEN ParseErr("no_slash_or_cover")
        ELSE IF input = <<>> THEN ParseErr("empty_url")
        ELSE IF is_asking_cover /\ cover_ext = <<>> THEN ParseErr("cover_no_extension")
        ELSE [ok |-> TRUE, input |-> input, cover_ext |-> cover_ext,
              is_asking_cover |-> is_asking_cover]

\* ------------------------------------------------------------------ JSON

\* Value::get(field): None unless the value is an object holding the field.
Get(v, field) ==
    IF "obj" \in DOMAIN v /\ field \in DOMAIN v.obj
    THEN [some |-> TRUE, v |-> v.obj[field]]
    ELSE [some |-> FALSE]

as_str(v) == IF "str" \in DOMAIN v THEN [some |-> TRUE, v |-> v.str] ELSE [some |-> FALSE]

as_i64(v) == IF "int" \in DOMAIN v THEN [some |-> TRUE, v |-> v.int] ELSE [some |-> FALSE]

as_array(v) == IF "arr" \in DOMAIN v THEN [some |-> TRUE, v |-> v.arr] ELSE [some |-> FALSE]

Ok(v) == [ok |-> TRUE, val |-> v]

Err(e) == [ok |-> FALSE, err |-> e]

\* ------------------------------------------------------------------ selection

\* Mutant of key_from_info: the key is read from the "url" field.
key_from_info_by_url(info) ==
    LET f == Get(info, "url")
    IN  IF ~f.some THEN Err("no_original_url")
        ELSE IF ~as_str(f.v).some THEN Err("original_url_not_string")
        ELSE Ok(as_str(f.v).v)

key_from_info(info) ==
    LET f == Get(info, "original_url")
    IN  IF ~f.some THEN Err("no_original_url")
        ELSE IF ~as_str(f.v).some THEN Err("original_url_not_string")
        ELSE Ok(as_str(f.v).v)

stream_url_from_info(info) ==
    LET f == Get(info, "url")
    IN  IF ~f.some THEN Err("no_url")
        ELSE IF ~as_str(f.v).some THEN Err("url_not_string")
        ELSE Ok(as_str(f.v).v)

\* Mutant of ThumbOf: a missing or non-integer "preference" counts as 0.
ThumbOfDefault(t) ==
    LET u == Get(t, "url")
        p == Get(t, "preference")
    IN  IF u.some /\ as_str(u.v).some
        THEN [some |-> TRUE,
              v |-> [url |-> as_str(u.v).v,
                     preference |-> IF p.some /\ as_i64(p.v).some THEN as_i64(p.v).v ELSE 0]]
        ELSE [some |-> FALSE]

\* The filter_map closure: Some(Thumb) only when "url" is a string and
\* "preference" an i64.
ThumbOf(t) ==
    LET u == Get(t, "url")
        p == Get(t, "preference")
    IN  IF u.some /\ as_str(u.v).some /\ p.some /\ as_i64(p.v).some
        THEN [some |-> TRUE, v |-> [url |-> as_str(u.v).v, preference |-> as_i64(p.v).v]]
        ELSE [some |-> FALSE]

RECURSIVE FilterMapThumbs(_)
FilterMapThumbs(ts) ==
    IF ts = <<>> THEN <<>>
    ELSE LET t == ThumbOf(Head(ts))
         IN  (IF t.some THEN <<t.v>> ELSE <<>>) \o FilterMapThumbs(Tail(ts))

RECURSIVE FilterExt(_, _)
FilterExt(ts, cover_ext) ==
    IF ts = <<>> THEN <<>>
    ELSE (IF ends_with(Head(ts).url, cover_ext) THEN <<Head(ts)>> ELSE <<>>)
         \o FilterExt(Tail(ts), cover_ext)

\* Mutant of ReduceStep: on equal preference the earlier candidate stays.
ReduceStepFirstWins(prev, next) == IF prev.preference < next.preference THEN next ELSE prev

\* The reduce closure: Less | Equal => next, Greater => prev.
ReduceStep(prev, next) == IF prev.preference <= next.preference THEN next ELSE prev

RECURSIVE ReduceFrom(_, _)
ReduceFrom(acc, ts) ==
    IF ts = <<>> THEN acc ELSE ReduceFrom(ReduceStep(acc, Head(ts)), Tail(ts))

cover_url_from_info(info, cover_ext) ==
    LET f == Get(info, "thumbnails")
    IN  IF ~f.some THEN Err("no_thumbnails")
        ELSE IF ~as_array(f.v).some THEN Err("thumbnails_not_array")
        ELSE LET cands == FilterExt(FilterMapThumbs(as_array(f.v).v), cover_ext)
             IN  IF cands = <<>> THEN Err("no_valid_thumbnail")
                 ELSE Ok(ReduceFrom(Head(cands), Tail(cands)).url)


\* ------------------------------------------------------------------ cache

\* Cache::builder().time_to_live(Duration::from_secs(600))
TTL == 600

EmptyCache == <<>>

\* Mutant of CacheGet: entries never expire.
CacheGetNoExpiry(c, k, t) ==
    IF k \in DOMAIN c THEN [some |-> TRUE, v |-> c[k].info] ELSE [some |-> FALSE]

\* An entry is live strictly before inserted + TTL; an expired entry is
\* invisible to get (moka evicts it lazily).
CacheGet(c, k, t) ==
    IF k \in DOMAIN c /\ t < c[k].inserted + TTL
    THEN [some |-> TRUE, v |-> c[k].info]
    ELSE [some |-> FALSE]

\* Mutant of CacheAfterGet: a read restarts the entry's time to live (the
\* time_to_idle policy).
CacheAfterGetIdle(c, k, t) ==
    IF k \in DOMAIN c /\ t < c[k].inserted + TTL
    THEN [c EXCEPT ![k].inserted = t]
    ELSE c

\* The cache after a get: the policy is time_to_live (no time_to_idle), so a
\* read changes neither the entries nor their expiry.
CacheAfterGet(c, k, t) == c

\* Mutant of CacheInsert: a cache of capacity one, every insert evicts the
\* other entries.
CacheInsertEvicting(c, k, v, t) ==
    [x \in {k} |-> [info |-> v, inserted |-> t]]

\* insert stores or replaces the entry of k and restarts its time to live.
CacheInsert(c, k, v, t) ==
    [x \in DOMAIN c \cup {k} |-> IF x = k THEN [info |-> v, inserted |-> t] ELSE c[x]]

\* ------------------------------------------------------------------ extractor

\* One run of the yt-dlp child process: whether it could be spawned and
\* awaited, its exit status, whether stdout is UTF-8, and its stdout lines.
\* A line is [json |-> Value] when serde_json parses it, [junk |-> TRUE] else.
\* Mutant of ask_stream_infos: the exit status is not looked at.
ask_stream_infos_any_status(proc) ==
    LET parsed == SelectSeq(proc.lines, LAMBDA l : "json" \in DOMAIN l)
        infos == [i \in 1..Len(parsed) |-> parsed[i].json]
    IN  IF ~proc.spawned THEN Err("spawn_failed")
        ELSE IF ~proc.utf8 THEN Err("not_utf8")
        ELSE IF infos = <<>> THEN Err("no_info")
        ELSE Ok(infos)

\* Mutant of ask_stream_infos: a line that does not parse fails the call.
ask_stream_infos_strict(proc) ==
    LET parsed == SelectSeq(proc.lines, LAMBDA l : "json" \in DOMAIN l)
        infos == [i \in 1..Len(parsed) |-> parsed[i].json]
    IN  IF ~proc.spawned THEN Err("spawn_failed")
        ELSE IF ~proc.success THEN Err("child_failed")
        ELSE IF ~proc.utf8 THEN Err("not_utf8")
        ELSE IF Len(parsed) # Len(proc.lines) \/ infos = <<>> THEN Err("no_info")
        ELSE Ok(infos)

ask_stream_infos(proc) ==
    LET parsed == SelectSeq(proc.lines, LAMBDA l : "json" \in DOMAIN l)
        infos == [i \in 1..Len(parsed) |-> parsed[i].json]
    IN  IF ~proc.spawned THEN Err("spawn_failed")
        ELSE IF ~proc.success THEN Err("child_failed")
        ELSE IF ~proc.utf8 THEN Err("not_utf8")
        ELSE IF infos = <<>> THEN Err("no_info")
        ELSE Ok(infos)

\* ------------------------------------------------------------------ handler

\* Uri::from_str: the empty string and a string holding a space do not parse.
ValidUri(u) == u # <<>> /\ \A i \in 1..Len(u) : u[i] # " "

NoInfo == [none |-> TRUE]

IdleReq ==
    [pc |-> "idle", path |-> <<>>, input |-> <<>>, cover_ext |-> <<>>,
     is_asking_cover |-> FALSE, infos |-> <<>>, got |-> <<>>, askedAt |-> 0,
     info |-> NoInfo, url |-> <<>>, resp |-> "none", err |-> "none",
     asked |-> 0, gets |-> 0, sent |-> 0, hit |-> FALSE, ran |-> "none"]

\* handle_request returned Err(e): the or_else closure of main answers 500
\* with an empty body.
Fail(q, e) ==
    [q EXCEPT !.pc = "done", !.resp = "500", !.err = e,
              !.infos = <<>>, !.got = <<>>, !.askedAt = 0]

\* The expect on the second cache.get panics: the task handling the
\* connection unwinds and no response is written.
Panic(q) ==
    [q EXCEPT !.pc = "done", !.resp = "none", !.err = "expect_panic",
              !.infos = <<>>, !.got = <<>>, !.askedAt = 0]

\* Mutant of Select: the stream url is the target of cover requests too.
SelectStreamOnly(q, info) ==
    LET sel == stream_url_from_info(info)
    IN  IF ~sel.ok THEN Fail(q, sel.err)
        ELSE IF ~ValidUri(sel.val) THEN Fail(q, "invalid_uri")
        ELSE [q EXCEPT !.pc = "forwarding", !.url = sel.val, !.sent = @ + 1,
                       !.infos = <<>>]

\* From the resolved info to the dispatch of the outbound request.
Select(q, info) ==
    LET sel == IF q.is_asking_cover
               THEN cover_url_from_info(info, q.cover_ext)
               ELSE stream_url_from_info(info)
    IN  IF ~sel.ok THEN Fail(q, sel.err)
        ELSE IF ~ValidUri(sel.val) THEN Fail(q, "invalid_uri")
        ELSE [q EXCEPT !.pc = "forwarding", !.url = sel.val, !.sent = @ + 1,
                       !.infos = <<>>]

\* Mutant of OnRequest: a cover request is looked up under the reference
\* followed by the extension.
OnRequestKeyedByVariant(p, c, t) ==
    LET parsed == extract_input(p)
        q0 == [IdleReq EXCEPT !.path = p]
    IN  IF ~parsed.ok THEN Fail(q0, parsed.err)
        ELSE LET q1 == [q0 EXCEPT !.input = parsed.input,
                                  !.cover_ext = parsed.cover_ext,
                                  !.is_asking_cover = parsed.is_asking_cover,
                                  !.gets = 1]
                 g == CacheGet(c, parsed.input \o parsed.cover_ext, t)
             IN  IF g.some THEN Select([q1 EXCEPT !.hit = TRUE, !.info = g.v], g.v)
                 ELSE [q1 EXCEPT !.pc = "asking", !.asked = @ + 1]

\* The request from its arrival to its first suspension: parse, look up,
\* and on a hit select and dispatch, on a miss start the extractor.
OnRequest(p, c, t) ==
    LET parsed == extract_input(p)
        q0 == [IdleReq EXCEPT !.path = p]
    IN  IF ~parsed.ok THEN Fail(q0, parsed.err)
        ELSE LET q1 == [q0 EXCEPT !.input = parsed.input,
                                  !.cover_ext = parsed.cover_ext,
                                  !.is_asking_cover = parsed.is_asking_cover,
                                  !.gets = 1]
                 g == CacheGet(c, parsed.input, t)
             IN  IF g.some THEN Select([q1 EXCEPT !.hit = TRUE, !.info = g.v], g.v)
                 ELSE [q1 EXCEPT !.pc = "asking", !.asked = @ + 1]

Free(r) == req[r].pc \in {"idle", "done"}

\* A request arrives and is served by a task of its own; the tasks are
\* interchangeable, so it takes the first one that serves no request.
Receive(r, p, maxArrivals) ==
    /\ Free(r)
    /\ \A r2 \in 1..(r - 1) : ~Free(r2)
    /\ arrivals < maxArrivals
    /\ arrivals' = arrivals + 1
    /\ req' = [req EXCEPT ![r] = OnRequest(p, cache, now)]
    /\ cache' = IF extract_input(p).ok
                THEN CacheAfterGet(cache, extract_input(p).input, now)
                ELSE cache
    /\ UNCHANGED <<now, ticks, birth, probe>>

\* History: how the run of the extractor ended, as the process tells it:
\* "bad" when it could not be spawned, exited with a failure status or
\* printed no line that is JSON.
RunOf(proc) ==
    IF \/ ~proc.spawned
       \/ ~proc.success
       \/ \A i \in 1..Len(proc.lines) : "json" \notin DOMAIN proc.lines[i]
    THEN "bad" ELSE "good"

\* Mutant of OnExtracted: a failed call is made a second time.
OnExtractedRetry(q, proc, t) ==
    LET res == ask_stream_infos(proc)
        q1 == [q EXCEPT !.ran = RunOf(proc)]
    IN  IF ~res.ok
        THEN IF q.asked < 2 THEN [q1 EXCEPT !.asked = @ + 1] ELSE Fail(q1, res.err)
        ELSE [q1 EXCEPT !.pc = "inserting", !.infos = res.val, !.got = res.val,
                        !.askedAt = t]

\* ask_stream_infos(&input).await? returns.
OnExtracted(q, proc, t) ==
    LET res == ask_stream_infos(proc)
        q1 == [q EXCEPT !.ran = RunOf(proc)]
    IN  IF ~res.ok THEN Fail(q1, res.err)
        ELSE [q1 EXCEPT !.pc = "inserting", !.infos = res.val, !.got = res.val,
                        !.askedAt = t]

\* Mutant of InsertedCache: the record is stored under the requested
\* reference instead of its own original_url.
InsertedCacheByInput(q, c, t) ==
    LET info == Head(q.infos)
        key == key_from_info(info)
    IN  IF ~key.ok THEN c ELSE CacheInsert(c, q.input, info, t)

\* The cache after one turn of the for loop: key_from_info(&info)? and
\* cache.insert(key, Arc::new(info)).
InsertedCache(q, c, t) ==
    LET info == Head(q.infos)
        key == key_from_info(info)
    IN  IF ~key.ok THEN c ELSE CacheInsert(c, key.val, info, t)

\* Mutant of OnInsert: a record without a key is skipped and the loop goes on.
OnInsertSkipBad(q, c, t) ==
    LET key == key_from_info(Head(q.infos))
        g == CacheGet(InsertedCache(q, c, t), q.input, t)
        q1 == [q EXCEPT !.infos = Tail(q.infos), !.gets = @ + 1]
    IN  IF Tail(q.infos) # <<>> THEN [q EXCEPT !.infos = Tail(q.infos)]
        ELSE IF ~key.ok THEN Fail(q, key.err)
        ELSE IF ~g.some THEN Panic(q1)
        ELSE Select([q1 EXCEPT !.info = g.v], g.v)

\* One turn of the for loop; after the last insert, the second get, the
\* selection and the dispatch follow without suspension.
OnInsert(q, c, t) ==
    LET key == key_from_info(Head(q.infos))
        g == CacheGet(InsertedCache(q, c, t), q.input, t)
        q1 == [q EXCEPT !.infos = Tail(q.infos), !.gets = @ + 1]
    IN  IF ~key.ok THEN Fail(q, key.err)
        ELSE IF Tail(q.infos) # <<>> THEN [q EXCEPT !.infos = Tail(q.infos)]
        ELSE IF ~g.some THEN Panic(q1)
        ELSE Select([q1 EXCEPT !.info = g.v], g.v)

CacheOnInsert(q, c, t) ==
    IF key_from_info(Head(q.infos)).ok /\ Tail(q.infos) = <<>>
    THEN CacheAfterGet(InsertedCache(q, c, t), q.input, t)
    ELSE InsertedCache(q, c, t)

\* History: when each key was last inserted.
BirthOnInsert(q, b, t) ==
    LET key == key_from_info(Head(q.infos))
    IN  IF ~key.ok THEN b
        ELSE [x \in DOMAIN b \cup {key.val} |-> IF x = key.val THEN t ELSE b[x]]

\* ------------------------------------------------------------------ inputs

RefA == <<"A">>
RefB == <<"B">>

Str(s) == [str |-> s]

Thumb(u, p) == [obj |-> [url |-> Str(u), preference |-> [int |-> p]]]

UrlAJ == <<"a", ".", "j">>
UrlBJ == <<"b", ".", "j">>
UrlCP == <<"c", ".", "p">>

SpecThumbs == [arr |-> <<Thumb(UrlAJ, 1), Thumb(UrlBJ, 5), Thumb(UrlCP, 9)>>]

\* A well-formed record of reference k.
Info(k) ==
    [obj |-> [original_url |-> Str(k), url |-> Str(<<"u">> \o k),
              thumbnails |-> SpecThumbs]]

\* Records that break the field contract.
InfoNoKey == [obj |-> [url |-> Str(<<"u">>), thumbnails |-> SpecThumbs]]
InfoNoUrl(k) == [obj |-> [original_url |-> Str(k), thumbnails |-> SpecThumbs]]
InfoBadUrl(k) == [obj |-> [original_url |-> Str(k), url |-> Str(<<" ">>)]]

Sibling(k) == IF k = RefA THEN RefB ELSE RefA

Json(v) == [json |-> v]
Junk == [junk |-> TRUE]
\* A line whose bytes are not UTF-8.
BadUtf8 == [badutf8 |-> TRUE]

Run(lines) == [spawned |-> TRUE, success |-> TRUE, utf8 |-> TRUE, lines |-> lines]

\* What a run of the extractor for reference k may come back with.
ProcOutcomes(k) ==
    { [spawned |-> FALSE, success |-> FALSE, utf8 |-> TRUE, lines |-> <<>>],
      [spawned |-> TRUE, success |-> FALSE, utf8 |-> TRUE, lines |-> <<Json(Info(k))>>],
      [spawned |-> TRUE, success |-> TRUE, utf8 |-> FALSE,
       lines |-> <<Json(Info(k)), BadUtf8>>],
      Run(<<Junk>>),
      Run(<<Json(Info(k))>>),
      Run(<<Json(Info(k)), Junk, Json(Info(Sibling(k)))>>),
      Run(<<Json(Info(Sibling(k)))>>),
      Run(<<Json(Info(Sibling(k))), Json(InfoNoKey), Json(Info(k))>>),
      Run(<<Json(InfoNoUrl(k))>>),
      Run(<<Json(InfoBadUrl(k))>>) }

Chars(str) ==
    CASE str = "/A/" -> <<"/", "A", "/">>
      [] str = "/B/" -> <<"/", "B", "/">>
      [] str = "/A/cover.j" -> <<"/", "A", "/", "c", "o", "v", "e", "r", ".", "j">>
      [] str = "/A/cover.w" -> <<"/", "A", "/", "c", "o", "v", "e", "r", ".", "w">>
      [] str = "/A" -> <<"/", "A">>

\* The paths of the requests the server receives.
RequestPaths == {Chars("/A/"), Chars("/B/"), Chars("/A/cover.j"), Chars("/A/cover.w"),
                 Chars("/A")}

\* Time advances by a second or by a second less than the time to live.
TickSteps == {1, TTL - 1}

\* ------------------------------------------------------------------ actions

\* The tasks serving requests concurrently.
Slots == {1, 2}

ExtractorReturn(r) ==
    /\ req[r].pc = "asking"
    /\ \E proc \in ProcOutcomes(req[r].input) :
         req' = [req EXCEPT ![r] = OnExtracted(req[r], proc, now)]
    /\ UNCHANGED <<now, ticks, cache, birth, arrivals, probe>>

InsertStep(r) ==
    /\ req[r].pc = "inserting"
    /\ req' = [req EXCEPT ![r] = OnInsert(req[r], cache, now)]
    /\ cache' = CacheOnInsert(req[r], cache, now)
    /\ birth' = BirthOnInsert(req[r], birth, now)
    /\ UNCHANGED <<now, ticks, arrivals, probe>>

\* client.request(request).await? returns the origin's response or an error.
ForwardDone(r) ==
    /\ req[r].pc = "forwarding"
    /\ \E ok \in BOOLEAN :
         req' = [req EXCEPT ![r] = IF ok THEN [req[r] EXCEPT !.pc = "done", !.resp = "origin"]
                                   ELSE Fail(req[r], "client_error")]
    /\ UNCHANGED <<now, ticks, cache, birth, arrivals, probe>>

Tick(maxTicks) ==
    /\ ticks < maxTicks
    /\ \E d \in TickSteps : now' = now + d
    /\ ticks' = ticks + 1
    /\ UNCHANGED <<cache, birth, req, arrivals, probe>>

NoProbe == [stage |-> "none"]

Init ==
    /\ now = 0
    /\ ticks = 0
    /\ cache = EmptyCache
    /\ birth = <<>>
    /\ req = [r \in Slots |-> IdleReq]
    /\ arrivals = 0
    /\ probe = NoProbe

\* The server handling requests concurrently.
Next ==
    \/ \E r \in Slots, p \in RequestPaths : Receive(r, p, MaxRequests)
    \/ \E r \in Slots : ExtractorReturn(r)
    \/ \E r \in Slots : InsertStep(r)
    \/ \E r \in Slots : ForwardDone(r)
    \/ Tick(MaxTicks)

Spec == Init /\ [][Next]_vars

\* The server handling one request after the other, over a longer time.
NextSeq ==
    \/ \E p \in RequestPaths : Receive(1, p, MaxSeqRequests)
    \/ ExtractorReturn(1)
    \/ InsertStep(1)
    \/ ForwardDone(1)
    \/ Tick(MaxSeqTicks)

SpecSeq == Init /\ [][NextSeq]_vars


\* ------------------------------------------------------------------ parser alone

\* The pieces request paths are built from.
PathTokens == {<<"/">>, <<".">>, <<"a">>, <<"c", "o", "v", "e", "r">>}

AllPaths ==
    {Flatten(ts) : ts \in UNION {[1..n -> PathTokens] : n \in 0..MaxTokens}}

\* One request with any path, received by the idle server.
NextParse ==
    /\ arrivals = 0
    /\ \E p \in AllPaths : Receive(1, p, 1)

SpecParse == Init /\ [][NextParse]_vars

\* ------------------------------------------------------------------ selection alone

UrlDJ == <<"d", ".", "J">>

\* Entries of a "thumbnails" list: usable ones, and ones lacking a string
\* "url" or an integer "preference".
GoodThumbs ==
    {Thumb(u, p) : u \in {UrlAJ, UrlBJ}, p \in {1, 5}} \cup {Thumb(UrlCP, 9), Thumb(UrlDJ, 9)}

BadThumbs ==
    { [obj |-> [url |-> Str(UrlBJ)]],
      [obj |-> [preference |-> [int |-> 9]]],
      [obj |-> [url |-> [int |-> 7], preference |-> [int |-> 9]]],
      [obj |-> [url |-> Str(UrlAJ), preference |-> [flt |-> 9]]],
      Str(UrlBJ) }

ThumbLists == UNION {[1..n -> GoodThumbs \cup BadThumbs] : n \in 0..MaxThumbs}

CoverInfos ==
    {[obj |-> [original_url |-> Str(RefA), thumbnails |-> [arr |-> ts]]] : ts \in ThumbLists}
    \cup { [obj |-> [original_url |-> Str(RefA)]],
           [obj |-> [original_url |-> Str(RefA), thumbnails |-> Str(UrlAJ)]],
           [obj |-> [original_url |-> Str(RefA), thumbnails |-> Thumb(UrlAJ, 1)]] }

CoverExts == {<<"j">>, <<"p">>, <<"w">>}

InitCover ==
    /\ now = 0
    /\ ticks = 0
    /\ cache = EmptyCache
    /\ birth = <<>>
    /\ req = [r \in Slots |-> IdleReq]
    /\ arrivals = 0
    /\ probe \in {[stage |-> "ask", info |-> i, cover_ext |-> e] :
                    i \in CoverInfos, e \in CoverExts}

Resolve ==
    /\ probe.stage = "ask"
    /\ probe' = [stage |-> "answer", info |-> probe.info, cover_ext |-> probe.cover_ext,
                 res |-> cover_url_from_info(probe.info, probe.cover_ext)]
    /\ UNCHANGED <<now, ticks, cache, birth, req, arrivals>>

NextCover == Resolve

SpecCover == InitCover /\ [][NextCover]_vars


\* ================================================================== claims

\* The error kinds of the specification, by the message the code fails with.
Kind(e) ==
    CASE e \in {"no_slash_or_cover", "empty_url", "cover_no_extension"} -> "MalformedRequest"
      [] e \in {"spawn_failed", "child_failed", "not_utf8", "no_info"} -> "ExtractionFailed"
      [] e = "expect_panic" -> "NoMatchingRecord"
      [] e \in {"no_original_url", "original_url_not_string", "no_url", "url_not_string",
                "no_thumbnails", "thumbnails_not_array"} -> "FieldMissing"
      [] e = "no_valid_thumbnail" -> "NoMatchingThumbnail"
      [] e = "invalid_uri" -> "InvalidTargetUrl"
      [] e = "client_error" -> "UpstreamError"
      [] OTHER -> "none"

\* The request was parsed into (reference, extension, wants_cover) and went on
\* to the cache lookup.
AcceptedAs(q, reference, ext, wants_cover) ==
    /\ q.pc # "idle"
    /\ Kind(q.err) # "MalformedRequest"
    /\ q.gets >= 1
    /\ q.input = reference
    /\ q.cover_ext = ext
    /\ q.is_asking_cover = wants_cover

\* The request failed in the parser: answered 500, and no cache lookup, no
\* extractor run and no outbound request happened for it.
RejectedMalformed(q) ==
    /\ q.pc = "done"
    /\ q.resp = "500"
    /\ Kind(q.err) = "MalformedRequest"
    /\ q.gets = 0 /\ q.asked = 0 /\ q.sent = 0

HasNo(s, ch) == \A i \in 1..Len(s) : s[i] # ch

\* p = "/" reference "/cover." ext, the reference being p[2..n].
IsCoverPath(p, n) ==
    /\ n >= 2 /\ n + 8 <= Len(p)
    /\ p[1] = SLASH /\ p[2] # SLASH
    /\ p[n + 1] = SLASH
    /\ SubSeq(p, n + 2, n + 7) = COVER_DOT
    /\ HasNo(SubSeq(p, n + 8, Len(p)), SLASH)

\* C6 as stated: GET /<reference>, nothing after the reference, is accepted as
\* a stream request, and GET /<reference>/cover.<ext> as a cover request.
C6_AsStated ==
    LET q == req[1]
        p == q.path
    IN  q.pc # "idle" =>
          /\ (Len(p) >= 2 /\ p[1] = SLASH /\ HasNo(Tail(p), SLASH))
               => AcceptedAs(q, Tail(p), <<>>, FALSE)
          /\ \A n \in 2..Len(p) : IsCoverPath(p, n)
               => AcceptedAs(q, SubSeq(p, 2, n), SubSeq(p, n + 8, Len(p)), TRUE)

\* C6 amended: GET /<reference>/ (the reference followed by a '/'; the
\* reference non-empty and not starting with '/') is accepted as a stream
\* request for the reference, and GET /<reference>/cover.<ext> (ext non-empty,
\* without '/') as a cover request for the same reference.
C6_TrailingSlash ==
    LET q == req[1]
        p == q.path
    IN  q.pc # "idle" =>
          /\ (Len(p) >= 3 /\ p[1] = SLASH /\ p[2] # SLASH /\ p[Len(p)] = SLASH)
               => AcceptedAs(q, SubSeq(p, 2, Len(p) - 1), <<>>, FALSE)
          /\ \A n \in 2..Len(p) : IsCoverPath(p, n)
               => AcceptedAs(q, SubSeq(p, 2, n), SubSeq(p, n + 8, Len(p)), TRUE)

C6_Witness ==
    /\ req[1].path = <<"/", "a", "/", "a", "/">>
    /\ AcceptedAs(req[1], <<"a", "/", "a">>, <<>>, FALSE)
    /\ req[1].pc = "asking"

\* The last '/' of p is at i.
LastSlashAt(p, i) == p[i] = SLASH /\ \A j \in (i + 1)..Len(p) : p[j] # SLASH

\* s is t without its leading '/' characters.
Stripped(s, t) ==
    \/ s = <<>> /\ \A i \in 1..Len(t) : t[i] = SLASH
    \/ \E k \in 1..Len(t) :
         /\ t[k] # SLASH
         /\ \A j \in 1..(k - 1) : t[j] = SLASH
         /\ s = SubSeq(t, k, Len(t))

\* The part of p after its last '/' is "cover." and a non-empty extension.
EndsInCover(p, i) ==
    /\ LastSlashAt(p, i)
    /\ i + 7 <= Len(p)
    /\ SubSeq(p, i + 1, i + 6) = COVER_DOT

\* C7 as stated: every path ending in /cover.<ext>, ext non-empty, parses to
\* wants_cover with the extension after the first '.' of the last segment and
\* the reference before the last '/', leading '/' stripped.
C7_AsStated ==
    LET q == req[1]
        p == q.path
    IN  q.pc # "idle" =>
          \A i \in 1..Len(p) : EndsInCover(p, i) =>
            /\ AcceptedAs(q, q.input, SubSeq(p, i + 7, Len(p)), TRUE)
            /\ Stripped(q.input, SubSeq(p, 1, i - 1))

\* C7 amended: the same, for the paths whose part before the last '/' is not
\* made of '/' characters only; for the others the parse fails (empty URL).
C7_NonEmptyReference ==
    LET q == req[1]
        p == q.path
    IN  q.pc # "idle" =>
          \A i \in 1..Len(p) : EndsInCover(p, i) =>
            IF \E j \in 1..(i - 1) : p[j] # SLASH
            THEN /\ AcceptedAs(q, q.input, SubSeq(p, i + 7, Len(p)), TRUE)
                 /\ q.input # <<>>
                 /\ Stripped(q.input, SubSeq(p, 1, i - 1))
            ELSE RejectedMalformed(q) /\ q.err = "empty_url"

C7_Witness ==
    /\ req[1].path = <<"/", "a", "/", "c", "o", "v", "e", "r", ".", ".">>
    /\ AcceptedAs(req[1], <<"a">>, <<".">>, TRUE)

\* C8: the path "/", the empty path, a last segment "cover." without an
\* extension, a non-empty last segment not starting with "cover.", and a
\* reference that is empty once its leading '/' are stripped all fail as
\* malformed, with no cache lookup, no extractor run and no forward.
C8_MalformedRejected ==
    LET q == req[1]
        p == q.path
        last == IF HasNo(p, SLASH) THEN p
                ELSE SubSeq(p, (CHOOSE i \in 1..Len(p) : LastSlashAt(p, i)) + 1, Len(p))
        before == IF HasNo(p, SLASH) THEN <<>>
                  ELSE SubSeq(p, 1, (CHOOSE i \in 1..Len(p) : LastSlashAt(p, i)) - 1)
    IN  q.pc # "idle" =>
          ((\/ p = <<SLASH>>
            \/ p = <<>>
            \/ last = COVER_DOT
            \/ last # <<>> /\ (Len(last) < 6 \/ SubSeq(last, 1, 6) # COVER_DOT)
            \/ \A j \in 1..Len(before) : before[j] = SLASH)
           => RejectedMalformed(q) /\ cache = EmptyCache)

C8_Witness ==
    /\ req[1].path = <<"/", "a", "/", "c", "o", "v", "e", "r", ".">>
    /\ RejectedMalformed(req[1])
    /\ req[1].err = "cover_no_extension"


\* The entries of the probed record's "thumbnails" list (none when the field
\* is absent or no list).
ProbeThumbs ==
    LET o == probe.info.obj
    IN  IF "thumbnails" \in DOMAIN o /\ "arr" \in DOMAIN o.thumbnails
        THEN o.thumbnails.arr ELSE <<>>

ProbeHasList ==
    LET o == probe.info.obj
    IN  "thumbnails" \in DOMAIN o /\ "arr" \in DOMAIN o.thumbnails

\* Entry t has a string url and an integer preference.
UsableThumb(t) ==
    /\ "obj" \in DOMAIN t
    /\ "url" \in DOMAIN t.obj /\ "str" \in DOMAIN t.obj.url
    /\ "preference" \in DOMAIN t.obj /\ "int" \in DOMAIN t.obj.preference

IsSuffix(ext, u) ==
    /\ Len(ext) <= Len(u)
    /\ \A j \in 1..Len(ext) : u[Len(u) - Len(ext) + j] = ext[j]

\* The positions of the usable entries whose url ends with the extension.
Matching ==
    {i \in 1..Len(ProbeThumbs) :
        /\ UsableThumb(ProbeThumbs[i])
        /\ IsSuffix(probe.cover_ext, ProbeThumbs[i].obj.url.str)}

PrefAt(i) == ProbeThumbs[i].obj.preference.int

UrlAt(i) == ProbeThumbs[i].obj.url.str

\* C9: the answer is the url of a matching candidate of maximum preference,
\* the latest in the list among those of maximum preference; an entry not
\* matching the extension never wins.
C9_BestCoverLastWins ==
    (probe.stage = "answer" /\ Matching # {}) =>
        /\ probe.res.ok
        /\ LET w == CHOOSE i \in Matching :
                      \A k \in Matching :
                         PrefAt(k) < PrefAt(i) \/ (PrefAt(k) = PrefAt(i) /\ k <= i)
           IN  probe.res.val = UrlAt(w)

C9_Witness ==
    /\ probe.stage = "answer"
    /\ probe.cover_ext = <<"j">>
    /\ ProbeThumbs = <<Thumb(UrlBJ, 5), Thumb(UrlAJ, 5), Thumb(UrlCP, 9)>>
    /\ probe.res = Ok(UrlAJ)

\* C10: the failure is FieldMissing(thumbnails) exactly when the field is
\* absent or no list, NoMatchingThumbnail exactly when the list holds no usable
\* entry whose url ends with the extension; an entry without a string url or an
\* integer preference is skipped: it raises no error and is never the answer.
C10_CoverFailures ==
    probe.stage = "answer" =>
        /\ (~probe.res.ok /\ probe.res.err \in {"no_thumbnails", "thumbnails_not_array"})
             <=> ~ProbeHasList
        /\ (~probe.res.ok /\ probe.res.err = "no_valid_thumbnail")
             <=> (ProbeHasList /\ Matching = {})
        /\ probe.res.ok => \E i \in Matching : probe.res.val = UrlAt(i)

C10_Witness ==
    /\ probe.stage = "answer"
    /\ probe.cover_ext = <<"j">>
    /\ ProbeThumbs = <<[obj |-> [url |-> Str(UrlBJ)]], [obj |-> [preference |-> [int |-> 9]]]>>
    /\ probe.res = Err("no_valid_thumbnail")


\* ------------------------------------------------------------------ cache claims

\* Slot r took a request in this step and looked its reference up.
LookupStep(r) ==
    /\ arrivals' = arrivals + 1
    /\ req'[r] # req[r]
    /\ req'[r].gets >= 1

\* An entry of k was inserted less than the time to live ago.
LiveEntry(k) == k \in DOMAIN birth /\ now < birth[k] + TTL

\* C1: a request whose reference has a live entry at lookup time is served
\* from it: no extractor run for the request, and the cache and the entries'
\* expiry are left as they were.
C1_HitLeavesCacheAlone ==
    [][\A r \in Slots :
         /\ (LookupStep(r) /\ LiveEntry(req'[r].input)) =>
              /\ req'[r].hit /\ req'[r].asked = 0
              /\ req'[r].info = cache[req'[r].input].info
              /\ cache' = cache
         /\ req'[r].hit => (req'[r].asked = 0 /\ req'[r].pc \in {"forwarding", "done"})
         /\ (req[r].hit /\ req'[r] # req[r] /\ arrivals' = arrivals) => cache' = cache
      ]_vars

C1_Witness ==
    /\ req[1].hit /\ req[1].asked = 0 /\ req[1].pc = "forwarding"
    /\ req[1].input = RefA
    /\ birth[RefA] = 0 /\ now = TTL - 1
    /\ cache[RefA].inserted = 0

HasKey(v) ==
    /\ "obj" \in DOMAIN v
    /\ "original_url" \in DOMAIN v.obj
    /\ "str" \in DOMAIN v.obj.original_url

KeyOf(v) == v.obj.original_url.str

\* Slot r makes the last turn of its population loop in this step.
PopulationEnds(r) ==
    /\ req[r].pc = "inserting"
    /\ Len(req[r].infos) = 1
    /\ req'[r].pc # "inserting"

\* C2: when a miss on A is followed by an extractor answer whose records have
\* original_url values S, A among them, the resolve of A succeeds, every record
\* is in the cache under its own original_url, and a later lookup of any key
\* inserted less than the time to live ago is a hit without an extractor run.
C2_PopulateAllThenHit ==
    [][\A r \in Slots :
         /\ LET q == req[r]
                S == {KeyOf(q.got[i]) : i \in 1..Len(q.got)}
            IN  (/\ PopulationEnds(r)
                 /\ \A i \in 1..Len(q.got) : HasKey(q.got[i])
                 /\ q.input \in S
                 /\ now < q.askedAt + TTL) =>
                  /\ req'[r].asked = 1 /\ ~req'[r].hit
                  /\ HasKey(req'[r].info) /\ KeyOf(req'[r].info) = q.input
                  /\ req'[r].err \notin {"expect_panic", "no_original_url",
                                         "original_url_not_string"}
                  /\ \A i \in 1..Len(q.got) :
                       LET k == KeyOf(q.got[i])
                           n == CHOOSE j \in 1..Len(q.got) :
                                  /\ KeyOf(q.got[j]) = k
                                  /\ \A m \in (j + 1)..Len(q.got) : KeyOf(q.got[m]) # k
                       IN  /\ k \in DOMAIN cache'
                           /\ cache'[k].info = q.got[n]
                           /\ cache'[k].inserted >= q.askedAt
                           /\ birth'[k] >= q.askedAt
         /\ (LookupStep(r) /\ LiveEntry(req'[r].input)) =>
              (req'[r].hit /\ req'[r].asked = 0 /\ req'[r].pc # "asking")
      ]_vars

C2_Witness ==
    /\ arrivals = 2
    /\ req[1].input = RefB /\ req[1].hit /\ req[1].asked = 0
    /\ req[1].info = Info(RefB)
    /\ DOMAIN cache = {RefA, RefB}
    /\ cache[RefA].inserted = 0 /\ cache[RefB].inserted = 1
    /\ now = TTL

\* C3 as stated: when the extractor succeeds and no record it returned has
\* the requested reference as original_url, the request fails with the error
\* NoMatchingRecord, returned like every other error (answered 500).
C3_NoMatchIsAnError ==
    [][\A r \in Slots :
         LET q == req[r]
         IN  (/\ PopulationEnds(r)
              /\ \A i \in 1..Len(q.got) : HasKey(q.got[i]) /\ KeyOf(q.got[i]) # q.input
              /\ q.input \notin DOMAIN cache) =>
               /\ req'[r].pc = "done"
               /\ req'[r].resp = "500"
               /\ Kind(req'[r].err) = "NoMatchingRecord"
      ]_vars

\* C4 as stated: every request that fails, at whatever stage, is answered
\* with a 500 response.
C4_EveryFailureAnswered500 ==
    \A r \in Slots :
        (req[r].pc = "done" /\ req[r].resp # "origin") => req[r].resp = "500"

\* C5: an entry inserted at t is a hit for a lookup before t + TTL and a miss,
\* with a new extractor run, for a lookup after t + TTL, whatever was read in
\* between: a lookup leaves the entries' lifetime as it was.
C5_FixedLifetime ==
    [][\A r \in Slots :
         LookupStep(r) =>
           LET k == req'[r].input
           IN  k \in DOMAIN birth =>
                 /\ now < birth[k] + TTL => (req'[r].hit /\ req'[r].asked = 0)
                 /\ now > birth[k] + TTL =>
                      (~req'[r].hit /\ req'[r].asked = 1 /\ req'[r].pc = "asking")
                 /\ birth' = birth
      ]_vars

C5_Witness ==
    /\ arrivals = 3
    /\ birth = (RefA :> 0)
    /\ now = 2 * (TTL - 1)
    /\ req[1].input = RefA /\ req[1].pc = "asking" /\ ~req[1].hit


\* ------------------------------------------------------------------ forward alone

\* HeaderMap::remove(name): every value of the name goes.
RECURSIVE remove_header(_, _)
remove_header(hs, name) ==
    IF hs = <<>> THEN <<>>
    ELSE (IF Head(hs).name = name THEN <<>> ELSE <<Head(hs)>>)
         \o remove_header(Tail(hs), name)

\* Mutant of Rewrite: the Host header stays.
RewriteKeepHost(request, proxied_url) ==
    IF ~ValidUri(proxied_url) THEN Err("invalid_uri")
    ELSE Ok([request EXCEPT !.uri = proxied_url])

\* *request.uri_mut() = Uri::from_str(proxied_url)?;
\* request.headers_mut().remove("host");
Rewrite(request, proxied_url) ==
    IF ~ValidUri(proxied_url) THEN Err("invalid_uri")
    ELSE Ok([request EXCEPT !.uri = proxied_url,
                            !.headers = remove_header(@, "host")])

\* Header names as the HeaderMap holds them (lower case).
HeaderEntries ==
    {[name |-> n, value |-> v] : n \in {"host", "range", "accept"}, v \in {"1", "2"}}

InboundRequests ==
    {[method |-> m, uri |-> Chars("/A/"), headers |-> hs, body |-> b] :
        m \in {"GET", "HEAD"},
        hs \in UNION {[1..n -> HeaderEntries] : n \in 0..MaxHeaders},
        b \in {<<>>, <<"b">>}}

OriginResponses ==
    {[status |-> st, headers |-> hs, body |-> b] :
        st \in {"200", "404"},
        hs \in {<<>>, <<[name |-> "content-type", value |-> "1"]>>},
        b \in {<<>>, <<"m">>}}

InitForward ==
    /\ now = 0
    /\ ticks = 0
    /\ cache = EmptyCache
    /\ birth = <<>>
    /\ req = [r \in Slots |-> IdleReq]
    /\ arrivals = 0
    /\ probe \in {[stage |-> "in", inbound |-> i, proxied_url |-> u] :
                    i \in InboundRequests, u \in {<<"u", "A">>, <<" ">>}}

\* Lines 93-97: rewrite the request and hand it to the client, or fail.
Dispatch ==
    /\ probe.stage = "in"
    /\ LET rw == Rewrite(probe.inbound, probe.proxied_url)
       IN  probe' = IF rw.ok
                    THEN [stage |-> "sent", inbound |-> probe.inbound,
                          proxied_url |-> probe.proxied_url, outbound |-> rw.val]
                    ELSE [stage |-> "out", inbound |-> probe.inbound,
                          proxied_url |-> probe.proxied_url, resp |-> "500",
                          err |-> rw.err]
    /\ UNCHANGED <<now, ticks, cache, birth, req, arrivals>>

\* Lines 97-100: the client answers with the origin's response, which is
\* returned as it is, or with an error.
OriginAnswers ==
    /\ probe.stage = "sent"
    /\ \/ \E o \in OriginResponses :
            probe' = [stage |-> "out", inbound |-> probe.inbound,
                      proxied_url |-> probe.proxied_url, outbound |-> probe.outbound,
                      resp |-> "origin", origin |-> o, returned |-> o]
       \/ probe' = [stage |-> "out", inbound |-> probe.inbound,
                    proxied_url |-> probe.proxied_url, outbound |-> probe.outbound,
                    resp |-> "500", err |-> "client_error"]
    /\ UNCHANGED <<now, ticks, cache, birth, req, arrivals>>

NextForward == Dispatch \/ OriginAnswers

SpecForward == InitForward /\ [][NextForward]_vars

\* C11: the request handed to the client is the inbound request with the
\* resolved URL as target and without its Host headers: same method, same
\* other headers in the same order, same body; the origin's response is what
\* the caller gets.
C11_ForwardFidelity ==
    /\ "outbound" \in DOMAIN probe =>
         /\ probe.outbound.uri = probe.proxied_url
         /\ probe.outbound.method = probe.inbound.method
         /\ probe.outbound.body = probe.inbound.body
         /\ probe.outbound.headers =
              SelectSeq(probe.inbound.headers, LAMBDA h : h.name # "host")
    /\ "origin" \in DOMAIN probe => probe.returned = probe.origin

C11_Witness ==
    /\ probe.stage = "out" /\ probe.resp = "origin"
    /\ probe.inbound.method = "HEAD"
    /\ probe.inbound.headers = <<[name |-> "host", value |-> "1"],
                                 [name |-> "range", value |-> "2"]>>
    /\ probe.outbound.headers = <<[name |-> "range", value |-> "2"]>>
    /\ probe.returned.status = "404"


\* C12: in every reachable state of the server handling requests
\* concurrently, every cache entry is stored under the original_url of the
\* record it holds.
C12_KeyedByOriginalUrl ==
    \A k \in DOMAIN cache :
        HasKey(cache[k].info) /\ KeyOf(cache[k].info) = k

\* A request for A has populated the cache, and the sibling record that came
\* with it is stored under B, not under the requested reference.
C12_Witness ==
    /\ \E r \in Slots : req[r].input = RefA /\ req[r].asked = 1 /\ req[r].sent = 1
                        /\ Len(req[r].got) = 2
    /\ \E r \in Slots : req[r].pc = "inserting"
    /\ DOMAIN cache = {RefA, RefB}
    /\ cache[RefB].info = Info(RefB)
    /\ cache[RefA].info = Info(RefA)

\* The last record of a population that has key k.
LastWith(got, k) ==
    got[CHOOSE j \in 1..Len(got) :
          /\ KeyOf(got[j]) = k
          /\ \A m \in (j + 1)..Len(got) : KeyOf(got[m]) # k]

\* Another request for the same reference missed too and is still around.
MissedToo(r, r2) ==
    /\ r2 # r
    /\ req[r2].input = req[r].input
    /\ req[r2].asked = 1
    /\ req[r2].pc # "idle"

\* C13: when requests for the same reference have each missed and each run
\* the extractor, a request whose answer holds a record for the reference
\* resolves it, whatever the other does; and once every one of them that got
\* the same answer has populated, the cache holds for each returned
\* original_url the live entry a single population would have left.
C13_ConcurrentMisses ==
    [][\A r \in Slots : \A r2 \in Slots :
         LET q == req[r]
             S == {KeyOf(q.got[i]) : i \in 1..Len(q.got)}
         IN  (/\ PopulationEnds(r)
              /\ MissedToo(r, r2)
              /\ \A i \in 1..Len(q.got) : HasKey(q.got[i])
              /\ q.input \in S
              /\ now < q.askedAt + TTL) =>
               /\ req'[r].asked = 1
               /\ HasKey(req'[r].info) /\ KeyOf(req'[r].info) = q.input
               /\ req'[r].err # "expect_panic"
               /\ (/\ req[r2].got = q.got
                   /\ req[r2].pc \in {"forwarding", "done"}
                   /\ now < req[r2].askedAt + TTL) =>
                     \A k \in S :
                        /\ CacheGet(cache', k, now).some
                        /\ CacheGet(cache', k, now).v = LastWith(q.got, k)
      ]_vars

\* Both requests for A missed, both ran the extractor, both got the two
\* records and both dispatched.
C13_Witness ==
    /\ \A r \in Slots : /\ req[r].input = RefA /\ req[r].asked = 1
                        /\ req[r].pc = "forwarding"
                        /\ Len(req[r].got) = 2
    /\ req[1].got = req[2].got
    /\ DOMAIN cache = {RefA, RefB}

\* C14: a request runs the extractor at most once and dispatches at most one
\* outbound request; after a failed run of the extractor or a failed forward
\* it is over, answered with the error, with no second run and no second
\* dispatch.
C14_AtMostOnce ==
    \A r \in Slots :
        LET q == req[r]
        IN  /\ q.asked <= 1 /\ q.sent <= 1
            /\ q.ran = "bad" => q.asked = 1 /\ q.sent = 0 /\ q.pc = "done"
                                /\ q.resp = "500"
            /\ q.err \in {"spawn_failed", "child_failed", "not_utf8", "no_info"} =>
                 q.asked = 1 /\ q.sent = 0 /\ q.pc = "done" /\ q.resp = "500"
            /\ q.err = "client_error" => q.sent = 1 /\ q.pc = "done" /\ q.resp = "500"
            /\ q.pc = "asking" => q.asked = 1 /\ q.sent = 0
            /\ q.pc = "forwarding" => q.sent = 1

C14_Witness ==
    /\ req[1].err = "child_failed" /\ req[1].asked = 1 /\ req[1].pc = "done"
    /\ req[2].err = "client_error" /\ req[2].sent = 1 /\ req[2].asked = 1

\* Slot r takes a step.
StepOf(r) == req'[r] # req[r]

\* C15: a request whose run of the extractor fails (not spawned, failure
\* status, no line that parses) changes nothing that the others can see: its
\* lookup and the failed return leave the cache, the insert times and every
\* other request as they were, and it ends answered 500 with
\* ExtractionFailed.
C15_FailedRunIsolated ==
    [][\A r \in Slots :
         /\ (StepOf(r) /\ req'[r].pc = "asking") =>
              /\ cache' = cache /\ birth' = birth
              /\ \A r2 \in Slots \ {r} : req'[r2] = req[r2]
         /\ (StepOf(r) /\ req[r].pc = "asking" /\ req'[r].ran = "bad") =>
              /\ cache' = cache /\ birth' = birth
              /\ \A r2 \in Slots \ {r} : req'[r2] = req[r2]
              /\ req'[r].pc = "done" /\ req'[r].resp = "500"
              /\ Kind(req'[r].err) = "ExtractionFailed"
         /\ (StepOf(r) /\ req[r].ran = "bad") => req[r].pc = "done"
      ]_vars

\* A request's run of the extractor has failed while the other request is
\* in the middle of its population, the cache holding what that one put in.
C15_Witness ==
    /\ req[1].ran = "bad" /\ req[1].err = "child_failed"
    /\ req[2].pc = "inserting" /\ Len(req[2].infos) = 1 /\ Len(req[2].got) = 2
    /\ DOMAIN cache = {RefA}


\* ------------------------------------------------------------------ extractor alone

\* The lines a run may print: records, a line that is no JSON, a line whose
\* bytes are not UTF-8.
StdoutLines == {Json(Info(RefA)), Json(Info(RefB)), Junk, BadUtf8}

\* Every run of at most MaxLines lines; from_utf8 takes the whole of stdout,
\* so stdout is UTF-8 when every line is.
AllProcs ==
    {[spawned |-> FALSE, success |-> FALSE, utf8 |-> TRUE, lines |-> <<>>]}
    \cup
    {[spawned |-> TRUE, success |-> ok,
      utf8 |-> \A i \in 1..Len(ls) : ls[i] # BadUtf8, lines |-> ls] :
        ok \in BOOLEAN, ls \in UNION {[1..n -> StdoutLines] : n \in 0..MaxLines}}

\* A request for A has missed on the empty cache and awaits the extractor.
InitExtract ==
    /\ now = 0
    /\ ticks = 0
    /\ cache = EmptyCache
    /\ birth = <<>>
    /\ req = [r \in Slots |-> IF r = 1 THEN OnRequest(Chars("/A/"), EmptyCache, 0)
                              ELSE IdleReq]
    /\ arrivals = 1
    /\ probe \in {[stage |-> "run", proc |-> p] : p \in AllProcs}

ExtractorReturnsRun ==
    /\ probe.stage = "run"
    /\ req[1].pc = "asking"
    /\ req' = [req EXCEPT ![1] = OnExtracted(req[1], probe.proc, now)]
    /\ probe' = [stage |-> "ran", proc |-> probe.proc,
                 res |-> ask_stream_infos(probe.proc)]
    /\ UNCHANGED <<now, ticks, cache, birth, arrivals>>

NextExtract == ExtractorReturnsRun \/ InsertStep(1) \/ ForwardDone(1)

SpecExtract == InitExtract /\ [][NextExtract]_vars

\* The records of the lines that parse, in output order.
RECURSIVE Parseable(_)
Parseable(ls) ==
    IF ls = <<>> THEN <<>>
    ELSE (IF "json" \in DOMAIN Head(ls) THEN <<Head(ls).json>> ELSE <<>>)
         \o Parseable(Tail(ls))

\* The call has failed: ExtractionFailed, answered 500, nothing inserted.
CallFailed ==
    /\ ~probe.res.ok
    /\ Kind(probe.res.err) = "ExtractionFailed"
    /\ req[1].pc = "done" /\ req[1].resp = "500" /\ req[1].err = probe.res.err
    /\ cache = EmptyCache /\ birth = <<>>

\* C16 as stated: the call fails on a failure status and when no line
\* parses; when the status is success and a line parses, the lines that do
\* not parse are skipped and the records of the others are returned in order.
C16_AsStated ==
    probe.stage = "ran" =>
      LET proc == probe.proc
      IN  /\ (proc.spawned /\ ~proc.success) => CallFailed
          /\ Parseable(proc.lines) = <<>> => CallFailed
          /\ (proc.spawned /\ proc.success /\ Parseable(proc.lines) # <<>>) =>
               /\ probe.res.ok
               /\ probe.res.val = Parseable(proc.lines)

\* C16: the call fails on a failure status, when stdout is not UTF-8 and
\* when no line parses, even if other lines hold records; when the status is
\* success, stdout is UTF-8 and a line parses, the lines that are no JSON are
\* skipped and the records of the others are returned in order.
C16_ExtractorOutcome ==
    probe.stage = "ran" =>
      LET proc == probe.proc
          utf8 == \A i \in 1..Len(proc.lines) : proc.lines[i] # BadUtf8
      IN  /\ (proc.spawned /\ ~proc.success) => CallFailed
          /\ ~utf8 => CallFailed
          /\ Parseable(proc.lines) = <<>> => CallFailed
          /\ (proc.spawned /\ proc.success /\ utf8 /\ Parseable(proc.lines) # <<>>) =>
               /\ probe.res.ok
               /\ probe.res.val = Parseable(proc.lines)
               /\ req[1].ran = "good"
               /\ req[1].pc = "inserting" => req[1].got = Parseable(proc.lines)

\* A run that printed a record, a line that is no JSON and another record:
\* both records are returned, in that order, and cached.
C16_Witness ==
    /\ probe.stage = "ran"
    /\ probe.proc.lines = <<Json(Info(RefB)), Junk, Json(Info(RefA))>>
    /\ probe.proc.success
    /\ probe.res.ok /\ probe.res.val = <<Info(RefB), Info(RefA)>>
    /\ DOMAIN cache = {RefA, RefB}


\* C17 as stated: a path that holds no '/' is accepted as a stream request
\* whose reference is the whole path.
C17_AsStated ==
    LET q == req[1]
    IN  (q.pc # "idle" /\ q.path # <<>> /\ HasNo(q.path, SLASH)) =>
          AcceptedAs(q, q.path, <<>>, FALSE)

\* C17: a path that holds no '/' is rejected as malformed, with the error
\* of an empty URL, whatever else it holds.
C17_NoSlashRejected ==
    LET q == req[1]
    IN  (q.pc # "idle" /\ HasNo(q.path, SLASH)) =>
          /\ RejectedMalformed(q)
          /\ q.err = "empty_url"
          /\ q.input = <<>>

C17_Witness ==
    /\ req[1].path = <<"a", ".", "a">>
    /\ RejectedMalformed(req[1])
    /\ req[1].err = "empty_url"


\* url is the url of an entry of the record's "thumbnails" list and ends
\* with the extension.
IsThumbOf(url, info, ext) ==
    /\ "thumbnails" \in DOMAIN info.obj
    /\ "arr" \in DOMAIN info.obj.thumbnails
    /\ \E i \in 1..Len(info.obj.thumbnails.arr) :
         LET t == info.obj.thumbnails.arr[i]
         IN  UsableThumb(t) /\ t.obj.url.str = url /\ IsSuffix(ext, url)

\* C18: a request that has dispatched an outbound request had resolved a
\* record whose original_url is its own reference, from a hit or from its
\* own population, and the target is that record's "url" (stream) or the url
\* of one of its thumbnails ending with the extension asked (cover); a
\* request without a resolved record has dispatched nothing.
C18_ForwardTarget ==
    \A r \in Slots :
        LET q == req[r]
        IN  /\ q.sent >= 1 =>
                 /\ q.gets >= 1
                 /\ q.hit \/ q.asked = 1
                 /\ HasKey(q.info) /\ KeyOf(q.info) = q.input
                 /\ ValidUri(q.url)
                 /\ IF q.is_asking_cover
                    THEN IsThumbOf(q.url, q.info, q.cover_ext)
                    ELSE /\ "url" \in DOMAIN q.info.obj
                         /\ "str" \in DOMAIN q.info.obj.url
                         /\ q.url = q.info.obj.url.str
            /\ q.info = NoInfo => q.sent = 0 /\ q.resp # "origin"
            /\ q.pc \in {"asking", "inserting"} => q.sent = 0
            /\ (q.pc = "forwarding" \/ q.resp = "origin") => q.sent = 1

\* A cover request for A and a stream request for A have both dispatched,
\* to the thumbnail and to the stream url of the record of A.
C18_Witness ==
    /\ req[1].is_asking_cover /\ req[1].input = RefA /\ req[1].asked = 1
    /\ req[1].pc = "forwarding" /\ req[1].url = UrlBJ
    /\ req[2].input = RefA /\ ~req[2].is_asking_cover /\ req[2].hit
    /\ req[2].resp = "origin" /\ req[2].url = <<"u", "A">>

\* The number of the record the population loop of q is at.
TurnOf(q) == Len(q.got) - Len(q.infos) + 1

\* Request r is the first the server has received, and is alone.
SolePopulator(r) == arrivals = 1 /\ req[r].pc # "idle"

\* C19: the population is not undone by the failure of the request. At a
\* record without a string original_url the request ends answered 500, that
\* step inserts nothing and the rest of the records is dropped, while the
\* records before it are in the cache, inserted since the extractor
\* returned; when the last record is in and none has the reference as key,
\* every record is in the cache, and the request dispatches nothing unless
\* another request has inserted its reference; a finished request takes no
\* further step;
\* and a later lookup of a key inserted less than the time to live ago is a
\* hit.
C19_NoRollback ==
    [][\A r \in Slots :
         LET q == req[r]
             before == SubSeq(q.got, 1, TurnOf(q) - 1)
         IN  /\ (StepOf(r) /\ q.pc = "inserting" /\ ~HasKey(Head(q.infos))) =>
                  /\ req'[r].pc = "done" /\ req'[r].resp = "500"
                  /\ Kind(req'[r].err) = "FieldMissing"
                  /\ req'[r].infos = <<>>
                  /\ cache' = cache /\ birth' = birth
                  /\ \A i \in 1..Len(before) :
                       HasKey(before[i]) =>
                         LET k == KeyOf(before[i])
                         IN  /\ k \in DOMAIN cache'
                             /\ birth'[k] >= q.askedAt
                             /\ cache'[k].inserted >= q.askedAt
                             /\ SolePopulator(r) =>
                                  cache'[k].info =
                                    LastWith(SelectSeq(before, HasKey), k)
             /\ (/\ PopulationEnds(r)
                 /\ \A i \in 1..Len(q.got) :
                      HasKey(q.got[i]) /\ KeyOf(q.got[i]) # q.input) =>
                  /\ q.input \notin DOMAIN birth' =>
                       req'[r].pc = "done" /\ req'[r].sent = 0
                  /\ \A i \in 1..Len(q.got) :
                       LET k == KeyOf(q.got[i])
                       IN  /\ k \in DOMAIN cache'
                           /\ birth'[k] >= q.askedAt
                           /\ cache'[k].inserted >= q.askedAt
                           /\ SolePopulator(r) => cache'[k].info = LastWith(q.got, k)
             /\ (StepOf(r) /\ q.pc = "done") => arrivals' = arrivals + 1
             /\ (LookupStep(r) /\ LiveEntry(req'[r].input)) =>
                  (req'[r].hit /\ req'[r].asked = 0)
      ]_vars

\* The request for A failed at the keyless second record: the first record
\* (of B) is cached, the third (of A) is not, and the request for B that
\* came after is a hit.
C19_Witness ==
    /\ req[1].input = RefA /\ req[1].err = "no_original_url" /\ req[1].pc = "done"
    /\ req[2].input = RefB /\ req[2].hit /\ req[2].asked = 0 /\ req[2].sent = 1
    /\ DOMAIN cache = {RefB}

\* C20: the lookup and the inserts use the reference and the records'
\* original_url alone: a request whose reference has a live entry is a hit
\* without an extractor run, resolved to that entry, whether it asks for the
\* stream or for a cover of any extension and whatever became of the request
\* that populated; a turn of the population of a stream or of a cover
\* request inserts under the record's original_url.
C20_KeyIsReference ==
    [][\A r \in Slots :
         /\ LookupStep(r) =>
              /\ req'[r].hit <=> LiveEntry(req'[r].input)
              /\ req'[r].hit =>
                   /\ req'[r].asked = 0
                   /\ req'[r].info = cache[req'[r].input].info
              /\ ~req'[r].hit => req'[r].pc = "asking"
         /\ (StepOf(r) /\ req[r].pc = "inserting" /\ HasKey(Head(req[r].infos))) =>
              /\ DOMAIN cache' = DOMAIN cache \cup {KeyOf(Head(req[r].infos))}
              /\ cache'[KeyOf(Head(req[r].infos))].info = Head(req[r].infos)
              /\ \A k \in DOMAIN cache \ {KeyOf(Head(req[r].infos))} :
                   cache'[k] = cache[k]
      ]_vars

\* The cover request for A populated and failed for want of a thumbnail
\* with its extension; the stream request for A that followed is a hit.
C20_Witness ==
    /\ req[1].path = Chars("/A/cover.w") /\ req[1].asked = 1
    /\ req[1].err = "no_valid_thumbnail"
    /\ req[2].path = Chars("/A/") /\ req[2].hit /\ req[2].asked = 0
    /\ req[2].pc = "forwarding"

\* The stream request for A populated; the cover request for A that followed
\* is a hit and has dispatched to the thumbnail.
C20_WitnessCover ==
    /\ req[1].path = Chars("/A/") /\ req[1].asked = 1 /\ req[1].sent = 1
    /\ req[2].path = Chars("/A/cover.j") /\ req[2].hit /\ req[2].asked = 0
    /\ req[2].url = UrlBJ


====
